---- MODULE Spec2Model ----
(***************************************************************************)
(* Model of DeBERTa-FineTune/engine/trainer_accelerate.py: one call of     *)
(* Trainer.train or Trainer.val (one epoch of one phase) on one worker of  *)
(* an accelerate run.                                                      *)
(*                                                                         *)
(* Numbers.  Losses and gradients are exact rationals <<num, den>> (the    *)
(* float rounding of the tensor engine is not modelled).  The model has a  *)
(* single scalar parameter, so the gradient norm is the absolute value of  *)
(* the accumulated gradient.                                               *)
(***************************************************************************)
EXTENDS Integers, Sequences, FiniteSets, TLC

(* ------------------------------ bounds --------------------------------- *)
MaxData    == 4   \* dataset sizes 0..MaxData
MaxBatch   == 2   \* per-worker batch sizes 1..MaxBatch
MaxWorkers == 2   \* accelerate processes 1..MaxWorkers
MaxWindow  == 3   \* TRAIN.GRADIENT_ACCUMULATION_STEPS in 1..MaxWindow
MaxClip    == 1   \* TRAIN.CLIP_GRAD in 0..MaxClip (0: disabled)
MaxLayers  == 2   \* encoder layers of student and teacher in 1..MaxLayers
MaxFreq    == 2   \* PRINT_FREQ in 1..MaxFreq

(* The batches a dataloader can yield: the model's task loss on the batch  *)
(* (outputs.loss), the value kd_cls_loss returns on the batch, and the     *)
(* gradient of the step's raw loss with respect to the student's parameter *)
(* (grad) and, were the teacher's forward recorded for backward, to the    *)
(* teacher's parameter (tgrad).                                            *)
Batches ==
    { [loss |-> 1, logit |-> 2, grad |-> 1, tgrad |-> 2],
      [loss |-> 3, logit |-> 1, grad |-> -4, tgrad |-> -1] }

(* ----------------------------- rationals ------------------------------- *)
Abs(x) == IF x < 0 THEN -x ELSE x

RECURSIVE GCD(_, _)
GCD(a, b) == IF b = 0 THEN a ELSE GCD(b, a % b)

RNorm(num, den) ==
    LET g == GCD(Abs(num), den)
    IN  <<num \div g, den \div g>>

RInt(x)     == <<x, 1>>
RAdd(x, y)  == RNorm(x[1] * y[2] + y[1] * x[2], x[2] * y[2])
RDivInt(x, k) == RNorm(x[1], x[2] * k)
RAbs(x)     == <<Abs(x[1]), x[2]>>
RLe(x, y)   == x[1] * y[2] <= y[1] * x[2]
RSign(x)    == IF x[1] < 0 THEN -1 ELSE 1

RECURSIVE RSum(_)
RSum(s) == IF s = <<>> THEN RInt(0) ELSE RAdd(Head(s), RSum(Tail(s)))

RECURSIVE Sum(_)
Sum(s) == IF s = <<>> THEN 0 ELSE Head(s) + Sum(Tail(s))

CeilDiv(a, b) == (a + b - 1) \div b
Min(a, b) == IF a <= b THEN a ELSE b
Max(a, b) == IF a >= b THEN a ELSE b

Count(s, x) == Cardinality({i \in 1..Len(s) : s[i] = x})

(* ------------------------- pure parts of the code ---------------------- *)

(* Faults of line 79 the properties below must notice: no trailing flush,  *)
(* and the window counted from the step index instead of step + 1.         *)
ShouldUpdateNoFlush(k, n, w) == (k + 1) % w = 0
ShouldUpdateOffByOne(k, n, w) == (k % w = 0) \/ (k = n - 1)

(* trainer_accelerate.py:79, the condition of the update branch.           *)
ShouldUpdate(k, n, w) == ((k + 1) % w = 0) \/ (k = n - 1)

(* Fault of line 62: the loss is backpropagated unscaled.                  *)
ScaleLossUnscaled(loss_raw, w) == loss_raw

(* trainer_accelerate.py:62, loss = loss_raw / GRADIENT_ACCUMULATION_STEPS *)
ScaleLoss(loss_raw, w) == RDivInt(loss_raw, w)

(* Fault of lines 70-71: the norm handed to telemetry is taken after the   *)
(* clip.                                                                   *)
ClipGradNormPost(g, max_norm) ==
    LET c == IF RLe(RAbs(g), RInt(max_norm)) THEN g
             ELSE RInt(RSign(g) * max_norm)
    IN  [ norm |-> RAbs(c), grad |-> c ]

(* torch.nn.utils.clip_grad_norm_ as called at lines 70-71: it returns the *)
(* total norm the gradients had BEFORE clipping and scales them in place   *)
(* by max_norm / total_norm when that is below 1 (the 1e-6 added to the    *)
(* denominator is dropped).                                                *)
ClipGradNorm(g, max_norm) ==
    [ norm |-> RAbs(g),
      grad |-> IF RLe(RAbs(g), RInt(max_norm)) THEN g
               ELSE RInt(RSign(g) * max_norm) ]

(* utils.misc.get_grad_norm as called at line 73: measures, changes        *)
(* nothing.                                                                *)
GetGradNorm(g) == [ norm |-> RAbs(g), grad |-> g ]

(* trainer_accelerate.py:69-73 *)
MeasureGrad(g, clip) ==
    IF clip # 0 THEN ClipGradNorm(g, clip) ELSE GetGradNorm(g)

(* trainer_accelerate.py:87-99, the pruning hooks of an update step; umc   *)
(* is what pruner._update_mask_conditions() answers.                       *)
PrunerOps(pruner, umc) ==
    IF pruner
    THEN <<"pruner.prune", "pruner._update_mask_conditions">>
         \o (IF umc THEN <<"pruner.sparsity">> ELSE <<>>)
    ELSE <<>>

(* Fault of lines 80-85: the gradients are zeroed before the optimizer     *)
(* step.                                                                   *)
UpdateOpsZeroFirst(pruner, umc) ==
    <<"optimizer.zero_grad", "optimizer.step", "lr_scheduler.step",
      "progress_bar.update">> \o PrunerOps(pruner, umc)

(* Fault of lines 80-99: the pruning hooks run before the optimizer step.  *)
UpdateOpsPruneFirst(pruner, umc) ==
    PrunerOps(pruner, umc)
    \o <<"optimizer.step", "lr_scheduler.step", "optimizer.zero_grad",
         "progress_bar.update">>

(* trainer_accelerate.py:80-99, the body of the update branch.             *)
UpdateOps(pruner, umc) ==
    <<"optimizer.step", "lr_scheduler.step", "optimizer.zero_grad",
      "progress_bar.update">> \o PrunerOps(pruner, umc)

(* Fault of line 32: the teacher's forward runs with gradient tracking.    *)
TeacherNoGradOff == FALSE

(* trainer_accelerate.py:32, the teacher's forward is inside               *)
(* torch.no_grad(): backward reaches no parameter of the teacher.          *)
TeacherNoGrad == TRUE

(* Fault of line 82: the gradients are not reset after the update.         *)
ZeroGradKeep(g) == g

(* trainer_accelerate.py:82, optimizer.zero_grad()                         *)
ZeroGrad(g) == RInt(0)

(* Fault of line 75: the learning rate is the one the epoch started with.  *)
CurrentLrInitial(sched, k, w) == 0

(* trainer_accelerate.py:75, optimizer.param_groups[0]['lr']: the value of *)
(* the schedule at its current position (the position stands for it).     *)
CurrentLr(sched, k, w) == sched

(* trainer_accelerate.py:106-109 and 166-169: the keyword arguments are    *)
(* evaluated left to right, then add_batch is called.                      *)
GatherOps == <<"gather(predictions)", "gather(labels)", "metric.add_batch">>

(* ---------------------- knowledge distillation ------------------------- *)
(* A model of L layers returns L + 1 hidden states (embeddings first) and  *)
(* L attention maps; each is stood for by one number.                      *)
StudentHidden(L) == [i \in 1..(L + 1) |-> i]
TeacherHidden(L) == [i \in 1..(L + 1) |-> 2 * i]
StudentAttn(L)   == [i \in 1..L |-> i]
TeacherAttn(L)   == [i \in 1..L |-> i + 2]

(* kd_reg_loss is supplied by the caller; a squared distance stands for it *)
kd_reg_loss(x, y) == (x - y) * (x - y)

(* Python s[b:] for b >= 0 *)
Slice(s, b) == SubSeq(s, b + 1, Len(s))

(* Python zip: stops at the shorter sequence *)
Zip(a, b) == [i \in 1..Min(Len(a), Len(b)) |-> <<a[i], b[i]>>]

(* Fault of lines 44-45 / 50-51: only the student's sequence is sliced.    *)
LayerLossMisaligned(student, teacher, begin) ==
    LET pairs == Zip(Slice(student, begin), teacher)
    IN  Sum([i \in 1..Len(pairs) |-> kd_reg_loss(pairs[i][1], pairs[i][2])])

(* trainer_accelerate.py:43-46 and 49-52 *)
LayerLoss(student, teacher, begin) ==
    LET pairs == Zip(Slice(student, begin), Slice(teacher, begin))
    IN  Sum([i \in 1..Len(pairs) |-> kd_reg_loss(pairs[i][1], pairs[i][2])])

(* number of layer pairs the loop at 44-46 (50-52) runs over *)
NumPairs(student, teacher, begin) ==
    Len(Zip(Slice(student, begin), Slice(teacher, begin)))

(* trainer_accelerate.py:40-56 *)
KdLoss(b, Ls, Lt, begin) ==
    LET hs   == LayerLoss(StudentHidden(Ls), TeacherHidden(Lt), begin)
        attn == LayerLoss(StudentAttn(Ls), TeacherAttn(Lt), begin)
    IN  [ logit_loss |-> b.logit, hs_loss |-> hs, attn_loss |-> attn,
          loss_raw |-> b.logit + hs + attn,
          \* hs_loss / attn_loss stay the Python float 0. when their loop
          \* body never runs; otherwise they are tensors
          tensors |-> /\ NumPairs(StudentHidden(Ls), TeacherHidden(Lt), begin) > 0
                      /\ NumPairs(StudentAttn(Ls), TeacherAttn(Lt), begin) > 0 ]

(* ------------------------------ dataloader ----------------------------- *)
(* The dataloader handed to the trainer is an accelerate-prepared one.     *)
(* With one process it is the plain DataLoader (last batch partial).  With *)
(* N > 1 processes the batches are dealt round-robin and completed with    *)
(* samples from the start of the dataset, so that every process gets the   *)
(* same number of batches, all of the full batch size.                     *)
LenDataloader(N, B, D) ==
    IF N = 1 THEN CeilDiv(D, B) ELSE CeilDiv(CeilDiv(D, B), N)

LocalBatchSize(N, B, D, k) ==
    IF N = 1 THEN Min(B, D - k * B) ELSE B

(* accelerator.gather: the concatenation over the N processes of their     *)
(* local tensors of step k                                                 *)
GatheredSize(N, B, D, k) == N * LocalBatchSize(N, B, D, k)

(* -------------------------------- state -------------------------------- *)
VARIABLES
    cfg,         \* config: w = TRAIN.GRADIENT_ACCUMULATION_STEPS, clip =
                 \* TRAIN.CLIP_GRAD, freq = PRINT_FREQ, begin = TRAIN.KD.BEGIN_LAYER
    args,        \* the call: phase, teacher, kd_cls_loss, kd_reg_loss, pruner,
                 \* layers of the student (Ls) and of the teacher (Lt)
    dl,          \* the dataloader: N processes, batch size B, dataset size D
    pc,          \* "idle", "loop", "done", "error"
    err,         \* the exception that left the call, "" if none
    mode,        \* model.train() / model.eval()
    step,        \* index of the next loop iteration
    batch_loss,  \* the local list batch_loss
    step_lr,     \* the local list step_lr
    grad,        \* accumulated gradient of the student's parameter
    schedSteps,  \* lr_scheduler.step() calls so far; the lr read at line 75
    progress,    \* progress_bar position
    agg,         \* metric_computor: sizes of the batches added and not computed
    hist,        \* one record per executed loop iteration (what it did)
    exitOps,     \* calls made after the loop
    result,      \* what the call returned
    teacherGrad, \* accumulated gradient of the teacher's parameter
    gradSteps,   \* steps whose backward is in grad (since the last zero_grad)
    workers,     \* the N processes side by side: where each is in its loop
    matched,     \* <<step, call>> of each participant of the last gather
    collectives  \* gathers completed so far

vars == <<cfg, args, dl, pc, err, mode, step, batch_loss, step_lr, grad,
          schedSteps, progress, agg, hist, exitOps, result, teacherGrad,
          gradSteps, workers, matched, collectives>>

(* what one call of the trainer on one process reads and writes *)
callVars == <<pc, err, mode, step, batch_loss, step_lr, grad, schedSteps,
              progress, agg, hist, exitOps, result, teacherGrad, gradSteps>>

(* the processes of a run side by side *)
runVars == <<workers, matched, collectives>>

n == LenDataloader(dl.N, dl.B, dl.D)      \* len(dataloader)

KdActive(a) == a.teacher /\ a.kd_cls /\ a.kd_reg

(* Arguments and config fields a call never reads are fixed to one value.  *)
TrainArgs ==
    { a \in [ phase : {"train"}, teacher : BOOLEAN, kd_cls : BOOLEAN,
              kd_reg : BOOLEAN, pruner : BOOLEAN,
              Ls : 1..MaxLayers, Lt : 1..MaxLayers ] :
        /\ ~a.teacher => (~a.kd_cls /\ ~a.kd_reg)
        /\ ~KdActive(a) => (a.Ls = 1 /\ a.Lt = 1) }

ValArgs ==
    { [ phase |-> "val", teacher |-> FALSE, kd_cls |-> FALSE,
        kd_reg |-> FALSE, pruner |-> FALSE, Ls |-> 1, Lt |-> 1 ] }

Configs == [ w : 1..MaxWindow, clip : 0..MaxClip, freq : 1..MaxFreq,
             begin : 0..MaxLayers ]

Init ==
    /\ args \in TrainArgs \cup ValArgs
    /\ cfg \in Configs
    /\ ~KdActive(args) => cfg.begin = 0
    /\ args.phase = "val" => (cfg.w = 1 /\ cfg.clip = 0)
    /\ dl \in [ N : 1..MaxWorkers, B : 1..MaxBatch, D : 0..MaxData ]
    /\ pc = "idle"
    /\ err = ""
    /\ mode = "none"
    /\ step = 0
    /\ batch_loss = <<>>
    /\ step_lr = <<>>
    /\ grad = RInt(0)
    /\ schedSteps = 0
    /\ progress = 0
    /\ agg = <<>>
    /\ hist = <<>>
    /\ exitOps = <<>>
    /\ result = [ returned |-> FALSE ]
    /\ teacherGrad = RInt(0)
    /\ gradSteps = {}
    /\ workers = <<>>
    /\ matched = {}
    /\ collectives = 0

(* ------------------------------ Trainer.train -------------------------- *)
(* lines 16-19 *)
TrainEntry ==
    /\ pc = "idle" /\ args.phase = "train"
    /\ mode' = "train"
    /\ batch_loss' = <<>>
    /\ step_lr' = <<>>
    /\ step' = 0
    /\ pc' = "loop"
    /\ UNCHANGED <<runVars, teacherGrad, gradSteps, cfg, args, dl, err, grad, schedSteps, progress, agg, hist,
                   exitOps, result>>

(* lines 22-24: the assertion at the head of the loop body fails *)
TrainStepAssertFail ==
    /\ pc = "loop" /\ args.phase = "train" /\ step < n
    /\ args.teacher /\ ~(args.kd_cls /\ args.kd_reg)
    /\ pc' = "error"
    /\ err' = "AssertionError"
    /\ UNCHANGED <<runVars, teacherGrad, gradSteps, cfg, args, dl, mode, step, batch_loss, step_lr, grad,
                   schedSteps, progress, agg, hist, exitOps, result>>

(* lines 20-138: one iteration of the loop on batch b *)
TrainStep ==
    /\ pc = "loop" /\ args.phase = "train" /\ step < n
    /\ ~(args.teacher /\ ~(args.kd_cls /\ args.kd_reg))
    /\ \E b \in Batches, umc \in BOOLEAN :
        LET kd       == KdLoss(b, args.Ls, args.Lt, cfg.begin)
            loss_raw == IF args.teacher THEN kd.loss_raw ELSE b.loss   \* 56, 59
            loss     == ScaleLoss(RInt(loss_raw), cfg.w)              \* 62
            backGrad == RAdd(grad, RDivInt(RInt(b.grad), cfg.w))      \* 66
            meas     == MeasureGrad(backGrad, cfg.clip)               \* 69-73
            lr       == CurrentLr(schedSteps, step, cfg.w)            \* 75
            tback    == IF args.teacher /\ ~TeacherNoGrad             \* 32, 66
                        THEN RAdd(teacherGrad, RDivInt(RInt(b.tgrad), cfg.w))
                        ELSE teacherGrad
            upd      == ShouldUpdate(step, n, cfg.w)                  \* 79
            gathered == GatheredSize(dl.N, dl.B, dl.D, step)
            print    == step % cfg.freq = 0                           \* 115
            \* line 119-120: .item() of the Python float 0.
            raises   == print /\ args.teacher /\ ~kd.tensors
            ops      == (IF args.teacher
                         THEN <<"model.forward", "teacher.forward(no_grad)",
                                "kd_cls_loss">>
                         ELSE <<"model.forward">>)
                        \o <<"backward">>
                        \o (IF cfg.clip # 0 THEN <<"clip_grad_norm_">>
                                            ELSE <<"get_grad_norm">>)
                        \o (IF upd THEN UpdateOps(args.pruner, umc) ELSE <<>>)
                        \o GatherOps
                        \o (IF print /\ ~raises THEN <<"logger.info">> ELSE <<>>)
        IN  /\ (~(upd /\ args.pruner)) => ~umc
            /\ batch_loss' = Append(batch_loss, loss)                  \* 63
            /\ step_lr' = Append(step_lr, lr)                          \* 76
            /\ grad' = IF upd THEN ZeroGrad(meas.grad) ELSE meas.grad  \* 82
            /\ teacherGrad' = tback
            /\ gradSteps' = IF upd THEN {} ELSE gradSteps \cup {step}
            /\ schedSteps' = IF upd THEN schedSteps + 1 ELSE schedSteps \* 81
            /\ progress' = IF upd THEN progress + 1 ELSE progress      \* 85
            /\ agg' = Append(agg, gathered)                            \* 106
            /\ hist' = Append(hist,
                 [ k |-> step, ops |-> ops, batch |-> b, kd |-> args.teacher,
                   loss_raw |-> loss_raw, loss |-> loss,
                   diag |-> IF args.teacher
                            THEN <<kd.logit_loss, kd.hs_loss, kd.attn_loss>>
                            ELSE <<>>,
                   gradBack |-> backGrad, gradMeas |-> meas.grad,
                   grad_norm |-> meas.norm, lr |-> lr, update |-> upd,
                   umc |-> umc,
                   applied |-> IF upd THEN gradSteps \cup {step} ELSE {},
                   line |-> IF print /\ ~raises
                            THEN <<[ step |-> step, lr |-> lr,
                                     loss_raw |-> loss_raw, loss |-> loss,
                                     kd |-> IF args.teacher
                                            THEN <<kd.logit_loss, kd.hs_loss,
                                                   kd.attn_loss>>
                                            ELSE <<>>,
                                     grad_norm |-> meas.norm ]>>
                            ELSE <<>>,
                   gathered |-> gathered, printed |-> print /\ ~raises ])
            /\ IF raises
               THEN /\ pc' = "error"
                    /\ err' = "AttributeError"
                    /\ step' = step
               ELSE /\ pc' = "loop"
                    /\ err' = err
                    /\ step' = step + 1
    /\ UNCHANGED <<runVars, cfg, args, dl, mode, exitOps, result>>

(* Fault: the exception of a step is caught and the loop goes on.          *)
TrainStepRaiseSwallowed ==
    /\ pc = "loop" /\ args.phase = "train" /\ step < n
    /\ ~(args.teacher /\ ~(args.kd_cls /\ args.kd_reg))
    /\ pc' = "loop"
    /\ err' = "RuntimeError"
    /\ step' = step + 1
    /\ UNCHANGED <<runVars, teacherGrad, gradSteps, cfg, args, dl, mode, batch_loss,
                   step_lr, grad, schedSteps, progress, agg, hist, exitOps,
                   result>>

(* lines 27 / 58: the forward of a step raises (out of memory); nothing in *)
(* the loop catches it.                                                    *)
TrainStepRaise ==
    /\ pc = "loop" /\ args.phase = "train" /\ step < n
    /\ ~(args.teacher /\ ~(args.kd_cls /\ args.kd_reg))
    /\ pc' = "error"
    /\ err' = "RuntimeError"
    /\ UNCHANGED <<runVars, teacherGrad, gradSteps, cfg, args, dl, mode, step,
                   batch_loss, step_lr, grad, schedSteps, progress, agg, hist,
                   exitOps, result>>

(* Fault of line 141: the mean of an empty epoch is taken as 0.            *)
TrainExitFailGuarded ==
    /\ pc = "loop" /\ args.phase = "train" /\ step = n
    /\ Len(batch_loss) = 0
    /\ result' = [ returned |-> TRUE, loss |-> RInt(0), samples |-> Sum(agg),
                   step_lr |-> step_lr ]
    /\ agg' = <<>>
    /\ exitOps' = <<"metric.compute", "logger.info", "empty_cache">>
    /\ pc' = "done"
    /\ UNCHANGED <<runVars, teacherGrad, gradSteps, cfg, args, dl, err, mode, step,
                   batch_loss, step_lr, grad, schedSteps, progress, hist>>

(* line 141 on an empty batch_loss *)
TrainExitFail ==
    /\ pc = "loop" /\ args.phase = "train" /\ step = n
    /\ Len(batch_loss) = 0
    /\ pc' = "error"
    /\ err' = "ZeroDivisionError"
    /\ UNCHANGED <<runVars, teacherGrad, gradSteps, cfg, args, dl, mode, step, batch_loss, step_lr, grad,
                   schedSteps, progress, agg, hist, exitOps, result>>

(* Fault of lines 139-147: the epoch returns without calling compute().    *)
TrainExitNoCompute ==
    /\ pc = "loop" /\ args.phase = "train" /\ step = n
    /\ Len(batch_loss) # 0
    /\ result' = [ returned |-> TRUE,
                   loss |-> RDivInt(RSum(batch_loss), Len(batch_loss)),
                   samples |-> 0,
                   step_lr |-> step_lr ]
    /\ exitOps' = <<"logger.info", "empty_cache">>
    /\ pc' = "done"
    /\ UNCHANGED <<runVars, teacherGrad, gradSteps, cfg, args, dl, err, mode, step, batch_loss, step_lr, grad,
                   schedSteps, progress, agg, hist>>

(* lines 139-147; metric_computor.compute() consumes and clears its state *)
TrainExit ==
    /\ pc = "loop" /\ args.phase = "train" /\ step = n
    /\ Len(batch_loss) # 0
    /\ result' = [ returned |-> TRUE,
                   loss |-> RDivInt(RSum(batch_loss), Len(batch_loss)),
                   samples |-> Sum(agg),
                   step_lr |-> step_lr ]
    /\ agg' = <<>>
    /\ exitOps' = <<"metric.compute", "logger.info", "empty_cache">>
    /\ pc' = "done"
    /\ UNCHANGED <<runVars, teacherGrad, gradSteps, cfg, args, dl, err, mode, step, batch_loss, step_lr, grad,
                   schedSteps, progress, hist>>

(* ------------------------------- Trainer.val --------------------------- *)
(* lines 153-156 *)
ValEntry ==
    /\ pc = "idle" /\ args.phase = "val"
    /\ mode' = "eval"
    /\ batch_loss' = <<>>
    /\ step' = 0
    /\ pc' = "loop"
    /\ UNCHANGED <<runVars, teacherGrad, gradSteps, cfg, args, dl, err, step_lr, grad, schedSteps, progress,
                   agg, hist, exitOps, result>>

(* Fault of lines 158-169: validation backpropagates and steps.            *)
ValStepOpsTraining ==
    <<"model.forward(no_grad)", "backward", "optimizer.step">> \o GatherOps

(* lines 158-169: the body of the no_grad block *)
ValStepOps == <<"model.forward(no_grad)">> \o GatherOps

(* lines 157-185: one iteration of the loop on batch b *)
ValStep ==
    /\ pc = "loop" /\ args.phase = "val" /\ step < n
    /\ \E b \in Batches :
        LET loss     == RInt(b.loss)                                   \* 161
            gathered == GatheredSize(dl.N, dl.B, dl.D, step)
            print    == step % cfg.freq = 0                            \* 175
            ops      == ValStepOps
                        \o (IF print THEN <<"logger.info">> ELSE <<>>)
        IN  /\ batch_loss' = Append(batch_loss, loss)                   \* 162
            /\ agg' = Append(agg, gathered)                             \* 166
            /\ hist' = Append(hist,
                 [ k |-> step, ops |-> ops, batch |-> b, kd |-> FALSE,
                   loss_raw |-> b.loss, loss |-> loss,
                   gathered |-> gathered, printed |-> print ])
    /\ step' = step + 1
    /\ UNCHANGED <<runVars, teacherGrad, gradSteps, cfg, args, dl, pc, err, mode, step_lr, grad, schedSteps,
                   progress, exitOps, result>>

(* line 160: the forward of a step raises (out of memory); nothing in the  *)
(* loop catches it.                                                        *)
ValStepRaise ==
    /\ pc = "loop" /\ args.phase = "val" /\ step < n
    /\ pc' = "error"
    /\ err' = "RuntimeError"
    /\ UNCHANGED <<runVars, teacherGrad, gradSteps, cfg, args, dl, mode, step,
                   batch_loss, step_lr, grad, schedSteps, progress, agg, hist,
                   exitOps, result>>

(* line 188 on an empty batch_loss *)
ValExitFail ==
    /\ pc = "loop" /\ args.phase = "val" /\ step = n
    /\ Len(batch_loss) = 0
    /\ pc' = "error"
    /\ err' = "ZeroDivisionError"
    /\ UNCHANGED <<runVars, teacherGrad, gradSteps, cfg, args, dl, mode, step, batch_loss, step_lr, grad,
                   schedSteps, progress, agg, hist, exitOps, result>>

(* lines 186-198 *)
ValExit ==
    /\ pc = "loop" /\ args.phase = "val" /\ step = n
    /\ Len(batch_loss) # 0
    /\ result' = [ returned |-> TRUE,
                   loss |-> RDivInt(RSum(batch_loss), Len(batch_loss)),
                   samples |-> Sum(agg) ]
    /\ agg' = <<>>
    /\ exitOps' = <<"metric.compute", "logger.info", "empty_cache">>
    /\ pc' = "done"
    /\ UNCHANGED <<runVars, teacherGrad, gradSteps, cfg, args, dl, err, mode, step, batch_loss, step_lr, grad,
                   schedSteps, progress, hist>>

Next ==
    \/ TrainEntry
    \/ TrainStepAssertFail
    \/ TrainStep
    \/ TrainStepRaise
    \/ TrainExitFail
    \/ TrainExit
    \/ ValEntry
    \/ ValStep
    \/ ValStepRaise
    \/ ValExitFail
    \/ ValExit

Spec == Init /\ [][Next]_vars

(* ------------------------- derived from the history -------------------- *)
AllOps == LET F[i \in 0..Len(hist)] ==
                  IF i = 0 THEN <<>> ELSE F[i - 1] \o hist[i].ops
          IN  F[Len(hist)] \o exitOps

NumOps(x) == Count(AllOps, x)

(* position of the first x in the sequence s, 0 if none *)
Pos(s, x) == IF \E i \in 1..Len(s) : s[i] = x
             THEN CHOOSE i \in 1..Len(s) :
                     s[i] = x /\ \A j \in 1..(i - 1) : s[j] # x
             ELSE 0

UpdateSteps == { hist[i].k : i \in { j \in 1..Len(hist) :
                     Count(hist[j].ops, "optimizer.step") > 0 } }

TypeOK ==
    /\ pc \in {"idle", "loop", "done", "error"}
    /\ step \in 0..n
    /\ Len(hist) <= n

(* =============================== claims ================================ *)
TrainRan == args.phase = "train"

HasOp(i, x) == Count(hist[i].ops, x) > 0

(* C1: when the loop of a train epoch has run over all n steps, exactly    *)
(* ceil(n / w) optimizer.step calls were made and, if there was any step,  *)
(* the last of them was made by the final step n - 1.                      *)
C1_UpdateCount ==
    (TrainRan /\ pc \in {"loop", "done"} /\ step = n) =>
        /\ NumOps("optimizer.step") = CeilDiv(n, cfg.w)
        /\ \A i \in 1..Len(hist) : Count(hist[i].ops, "optimizer.step") <= 1
        /\ n >= 1 => (HasOp(n, "optimizer.step") /\ hist[n].k = n - 1)

C1_Witness ==
    /\ TrainRan /\ pc = "done" /\ n = 4 /\ cfg.w = 3
    /\ NumOps("optimizer.step") = 2
    /\ UpdateSteps = {2, 3}

(* C2: step k of a train epoch calls optimizer.step iff (k+1) mod w = 0 or *)
(* k = n - 1, and at most once; for w = 4 and n = 10 the update steps are  *)
(* exactly 3, 7 and 9.                                                     *)
C2_UpdateRule ==
    /\ TrainRan =>
         \A i \in 1..Len(hist) :
            /\ HasOp(i, "optimizer.step")
                 <=> (((hist[i].k + 1) % cfg.w = 0) \/ (hist[i].k = n - 1))
            /\ Count(hist[i].ops, "optimizer.step") <= 1
            /\ hist[i].k = i - 1
    /\ { k \in 0..9 : ShouldUpdate(k, 10, 4) } = {3, 7, 9}

C2_Witness ==
    /\ TrainRan /\ pc = "done" /\ n = 4 /\ cfg.w = 2
    /\ UpdateSteps = {1, 3}
    /\ ~HasOp(1, "optimizer.step") /\ ~HasOp(3, "optimizer.step")

(* The accumulation window flushed by the update of step record i: the     *)
(* records after the previous update up to i.                              *)
WindowStart(i) ==
    LET prev == { j \in 1..(i - 1) : hist[j].update }
    IN  IF prev = {} THEN 1 ELSE 1 + CHOOSE j \in prev : \A m \in prev : m <= j

Window(i) == SubSeq(hist, WindowStart(i), i)

WindowLossSum(i) == RSum([j \in 1..Len(Window(i)) |-> Window(i)[j].loss])
WindowRawSum(i)  == Sum([j \in 1..Len(Window(i)) |-> Window(i)[j].loss_raw])
WindowRawMean(i) == RDivInt(RInt(WindowRawSum(i)), Len(Window(i)))

(* C3 as claimed: every step backpropagates raw / w, and in every flushed  *)
(* window, the trailing partial one included, the backpropagated losses    *)
(* sum to the mean of the window's raw losses.                             *)
C3_Original ==
    TrainRan =>
        \A i \in 1..Len(hist) :
            /\ hist[i].loss = RDivInt(RInt(hist[i].loss_raw), cfg.w)
            /\ hist[i].update => WindowLossSum(i) = WindowRawMean(i)

(* C3 amended: every step backpropagates raw / w; a flushed window of m    *)
(* steps sums to (sum of its raw losses) / w, which is the mean of its raw *)
(* losses when m = w, and m / w times that mean for the trailing partial   *)
(* window.                                                                 *)
C3_ScaledLoss ==
    TrainRan =>
        \A i \in 1..Len(hist) :
            /\ hist[i].loss = RDivInt(RInt(hist[i].loss_raw), cfg.w)
            /\ batch_loss[i] = hist[i].loss
            /\ hist[i].update =>
                 /\ Len(Window(i)) \in 1..cfg.w
                 /\ WindowLossSum(i) = RDivInt(RInt(WindowRawSum(i)), cfg.w)
                 /\ Len(Window(i)) = cfg.w =>
                        WindowLossSum(i) = WindowRawMean(i)
                 /\ Len(Window(i)) < cfg.w =>
                        /\ hist[i].k = n - 1
                        /\ WindowLossSum(i) =
                             RDivInt(RInt(Len(Window(i)) * WindowRawMean(i)[1]),
                                     WindowRawMean(i)[2] * cfg.w)

C3_Witness ==
    /\ TrainRan /\ pc = "done" /\ n = 4 /\ cfg.w = 3
    /\ Len(Window(3)) = 3 /\ WindowLossSum(3) = WindowRawMean(3)
    /\ Len(Window(4)) = 1 /\ WindowLossSum(4) # WindowRawMean(4)

(* C4 as claimed: clipping off, the measurement leaves the gradients alone *)
(* and the norm reported to telemetry is their norm; clipping on with      *)
(* max-norm m, the reported norm is at most m.                             *)
C4_Original ==
    TrainRan =>
        \A i \in 1..Len(hist) :
            hist[i].printed =>
                /\ cfg.clip = 0 =>
                     /\ hist[i].gradMeas = hist[i].gradBack
                     /\ hist[i].grad_norm = RAbs(hist[i].gradBack)
                /\ cfg.clip # 0 => RLe(hist[i].grad_norm, RInt(cfg.clip))

(* C4 amended: clipping off, as claimed; clipping on with max-norm m, the  *)
(* reported norm is the norm the accumulated gradients had before the clip *)
(* (it can exceed m), and the gradients left by the clip have norm at most *)
(* m.                                                                      *)
C4_ReportedNorm ==
    TrainRan =>
        \A i \in 1..Len(hist) :
            /\ cfg.clip = 0 =>
                 /\ hist[i].gradMeas = hist[i].gradBack
                 /\ hist[i].grad_norm = RAbs(hist[i].gradBack)
            /\ cfg.clip # 0 =>
                 /\ hist[i].grad_norm = RAbs(hist[i].gradBack)
                 /\ RLe(RAbs(hist[i].gradMeas), RInt(cfg.clip))

C4_Witness ==
    /\ TrainRan /\ cfg.clip # 0 /\ Len(hist) >= 1
    /\ hist[1].printed
    /\ ~RLe(hist[1].grad_norm, RInt(cfg.clip))
    /\ RAbs(hist[1].gradMeas) = RInt(cfg.clip)

GatheredSoFar == Sum([i \in 1..Len(hist) |-> hist[i].gathered])

(* C5: over one epoch of a phase, the samples handed to add_batch (the     *)
(* sizes of the gathered batches, summed over the steps) number exactly    *)
(* the dataset size of the phase, for every worker count, dataset size and *)
(* batch size.                                                             *)
C5_Original ==
    (pc \in {"loop", "done"} /\ step = n) => GatheredSoFar = dl.D

PrunerNames ==
    {"pruner.prune", "pruner._update_mask_conditions", "pruner.sparsity"}

CoreNames ==
    {"optimizer.step", "lr_scheduler.step", "optimizer.zero_grad",
     "progress_bar.update", "metric.add_batch"}

IsPrunerOp(x) == x \in PrunerNames
IsCoreOp(x) == x \in CoreNames

(* C6: with a pruner, prune() is called on exactly the update steps, once, *)
(* after optimizer.step() of the step; sparsity() is called only after     *)
(* prune() and only when _update_mask_conditions() answered true; an       *)
(* accumulate-only step calls no pruner method.  Without a pruner no       *)
(* pruner method is called, and with or without one the optimizer,         *)
(* scheduler, progress and aggregator calls of a step are the same.        *)
C6_PrunerHooks ==
    TrainRan =>
        \A i \in 1..Len(hist) :
          LET o == hist[i].ops
          IN  /\ (args.pruner /\ hist[i].update) =>
                   /\ Count(o, "pruner.prune") = 1
                   /\ Count(o, "optimizer.step") = 1
                   /\ Pos(o, "optimizer.step") < Pos(o, "pruner.prune")
                   /\ Count(o, "pruner._update_mask_conditions") = 1
                   /\ Count(o, "pruner.sparsity")
                        = (IF hist[i].umc THEN 1 ELSE 0)
                   /\ hist[i].umc =>
                        /\ Pos(o, "pruner.prune")
                             < Pos(o, "pruner._update_mask_conditions")
                        /\ Pos(o, "pruner._update_mask_conditions")
                             < Pos(o, "pruner.sparsity")
              /\ (~args.pruner \/ ~hist[i].update) =>
                   SelectSeq(o, IsPrunerOp) = <<>>
              /\ SelectSeq(o, IsCoreOp) =
                   (IF hist[i].update
                    THEN <<"optimizer.step", "lr_scheduler.step",
                           "optimizer.zero_grad", "progress_bar.update",
                           "metric.add_batch">>
                    ELSE <<"metric.add_batch">>)

C6_Witness ==
    /\ TrainRan /\ args.pruner /\ Len(hist) >= 2
    /\ ~hist[1].update /\ SelectSeq(hist[1].ops, IsPrunerOp) = <<>>
    /\ hist[2].update /\ hist[2].umc
    /\ SelectSeq(hist[2].ops, IsPrunerOp) =
         <<"pruner.prune", "pruner._update_mask_conditions", "pruner.sparsity">>

TrainingNames ==
    {"backward", "clip_grad_norm_", "get_grad_norm", "optimizer.step",
     "lr_scheduler.step", "optimizer.zero_grad", "progress_bar.update",
     "teacher.forward(no_grad)", "kd_cls_loss"} \cup PrunerNames

IsTrainingOp(x) == x \in TrainingNames
IsAggOp(x) == x \in {"gather(predictions)", "gather(labels)", "metric.add_batch"}

(* C7: in a validation epoch no step calls backward, optimizer.step,       *)
(* lr_scheduler.step, zero_grad, progress_bar.update or a pruner method,   *)
(* the gradients, the schedule and the progress counter stay as they were, *)
(* the loss of a step is the model's task loss, and every step gathers     *)
(* predictions and labels and calls add_batch exactly once.                *)
C7_ValFrame ==
    args.phase = "val" =>
        /\ grad = RInt(0) /\ schedSteps = 0 /\ progress = 0
        /\ step_lr = <<>>
        /\ \A i \in 1..Len(hist) :
              /\ SelectSeq(hist[i].ops, IsTrainingOp) = <<>>
              /\ SelectSeq(hist[i].ops, IsAggOp) =
                   <<"gather(predictions)", "gather(labels)", "metric.add_batch">>
              /\ ~hist[i].kd
              /\ hist[i].loss = RInt(hist[i].batch.loss)
              /\ batch_loss[i] = hist[i].loss

C7_Witness ==
    /\ args.phase = "val" /\ pc = "done" /\ Len(hist) = 3
    /\ result.returned

(* C8: compute() is called once per completed epoch of either phase, after *)
(* the add_batch of the last step and in no step; until then the           *)
(* aggregator holds one gathered batch per executed step, and after        *)
(* compute() it is empty.                                                  *)
C8_ComputeOnce ==
    /\ \A i \in 1..Len(hist) :
          /\ Count(hist[i].ops, "metric.compute") = 0
          /\ Count(hist[i].ops, "metric.add_batch") = 1
    /\ pc = "done" =>
          /\ Count(exitOps, "metric.compute") = 1
          /\ Len(hist) = n /\ n >= 1
          /\ result.samples = GatheredSoFar
          /\ agg = <<>>
    /\ pc # "done" =>
          /\ exitOps = <<>>
          /\ agg = [i \in 1..Len(hist) |-> hist[i].gathered]

C8_Witness ==
    /\ pc = "done" /\ Len(hist) = 2 /\ agg = <<>>
    /\ result.samples = hist[1].gathered + hist[2].gathered
    /\ Count(AllOps, "metric.compute") = 1
    /\ AllOps[Len(AllOps) - 2] = "metric.compute"

KdMisconfigured == args.teacher /\ ~(args.kd_cls /\ args.kd_reg)

(* C9: a train call with a teacher but without kd_cls_loss or kd_reg_loss  *)
(* ends, for every dataloader length, with the configuration error, raised *)
(* before any forward, backward, optimizer update or add_batch.            *)
C9_Original ==
    (TrainRan /\ KdMisconfigured /\ pc \in {"done", "error"}) =>
        /\ err = "AssertionError"
        /\ hist = <<>> /\ agg = <<>> /\ schedSteps = 0

KdLengthMismatch ==
    \/ Len(Slice(StudentHidden(args.Ls), cfg.begin))
         # Len(Slice(TeacherHidden(args.Lt), cfg.begin))
    \/ Len(Slice(StudentAttn(args.Ls), cfg.begin))
         # Len(Slice(TeacherAttn(args.Lt), cfg.begin))

(* C10: in KD mode, when the sliced student and teacher hidden-state or    *)
(* attention sequences differ in length, no step produces a composite loss *)
(* and the epoch does not complete.                                        *)
C10_Original ==
    (TrainRan /\ KdActive(args) /\ KdLengthMismatch) =>
        /\ hist = <<>>
        /\ pc # "done"

(* gradient left in the parameter when step record i starts *)
GradBefore(i) ==
    IF i = 1 \/ hist[i - 1].update THEN RInt(0) ELSE hist[i - 1].gradMeas

(* C11: in KD mode the teacher's forward of every step runs under no_grad; *)
(* after any number of steps the teacher's parameter has no gradient, and  *)
(* the backward of a step adds its contribution to the student's           *)
(* gradient only.                                                          *)
C11_TeacherNoGrad ==
    TrainRan =>
        /\ teacherGrad = RInt(0)
        /\ \A i \in 1..Len(hist) :
              /\ hist[i].kd =>
                   /\ Count(hist[i].ops, "teacher.forward(no_grad)") = 1
                   /\ Count(hist[i].ops, "model.forward") = 1
              /\ hist[i].gradBack =
                   RAdd(GradBefore(i), RDivInt(RInt(hist[i].batch.grad), cfg.w))

C11_Witness ==
    /\ TrainRan /\ KdActive(args) /\ Len(hist) >= 2
    /\ hist[1].kd /\ hist[2].kd
    /\ grad # RInt(0)
    /\ teacherGrad = RInt(0)

(* C12: an exception raised in a step of train or val leaves the call:     *)
(* once one is raised the call is in error, nothing more happens (no       *)
(* further step, no exit code), and neither the mean loss nor compute()    *)
(* was evaluated.                                                          *)
C12_ErrorsPropagate ==
    [][ /\ err # "" => UNCHANGED vars
        /\ err' # "" =>
             /\ pc' = "error"
             /\ exitOps' = <<>>
             /\ ~result'.returned
             /\ Len(hist') <= step' + 1 ]_vars

C12_Witness ==
    /\ pc = "error" /\ err = "RuntimeError"
    /\ Len(hist) >= 1 /\ step = Len(hist) /\ step + 1 < n
    /\ exitOps = <<>> /\ ~result.returned

WindowGradSum(i) ==
    RSum([j \in 1..Len(Window(i)) |->
            RDivInt(RInt(Window(i)[j].batch.grad), cfg.w)])

LastUpdate ==
    LET u == { j \in 1..Len(hist) : hist[j].update }
    IN  IF u = {} THEN 0 ELSE CHOOSE j \in u : \A m \in u : m <= j

(* C13: the gradients start at zero; every optimizer.step consumes the     *)
(* backward contributions of exactly the steps since the previous update   *)
(* (between 1 and w of them; their sum when nothing clips), zero_grad      *)
(* follows it in the same step, no step belongs to two updates, and when   *)
(* the loop has run over all steps every step was applied and the          *)
(* gradients are zero.                                                     *)
C13_WindowOwnership ==
    TrainRan =>
        /\ \A i \in 1..Len(hist) :
              IF hist[i].update
              THEN /\ hist[i].applied = { hist[j].k : j \in WindowStart(i)..i }
                   /\ Cardinality(hist[i].applied) \in 1..cfg.w
                   /\ Count(hist[i].ops, "backward") = 1
                   /\ Pos(hist[i].ops, "backward")
                        < Pos(hist[i].ops, "optimizer.step")
                   /\ Pos(hist[i].ops, "optimizer.step")
                        < Pos(hist[i].ops, "optimizer.zero_grad")
                   /\ cfg.clip = 0 => hist[i].gradMeas = WindowGradSum(i)
              ELSE hist[i].applied = {}
        /\ \A i, j \in 1..Len(hist) :
              i # j => hist[i].applied \cap hist[j].applied = {}
        /\ gradSteps = { hist[j].k : j \in (LastUpdate + 1)..Len(hist) }
        /\ gradSteps = {} => grad = RInt(0)
        /\ (pc \in {"loop", "done"} /\ step = n) =>
              /\ grad = RInt(0) /\ gradSteps = {}
              /\ UNION { hist[i].applied : i \in 1..Len(hist) } = 0..(n - 1)

C13_Witness ==
    /\ TrainRan /\ pc = "done" /\ n = 4 /\ cfg.w = 3 /\ cfg.clip = 0
    /\ hist[3].applied = {0, 1, 2} /\ hist[4].applied = {3}
    /\ hist[3].gradMeas # RInt(0)
    /\ grad = RInt(0)

IsOrderedOp(x) ==
    x \in {"backward", "clip_grad_norm_", "get_grad_norm", "optimizer.step",
           "lr_scheduler.step", "optimizer.zero_grad", "progress_bar.update",
           "gather(predictions)", "gather(labels)", "metric.add_batch"}
          \cup PrunerNames

(* C14: an update step calls, in this order, backward, the clip or the     *)
(* norm measurement, optimizer.step, lr_scheduler.step, zero_grad,         *)
(* progress_bar.update (once), the pruning hooks, the gathers and          *)
(* add_batch; an accumulate-only step calls none of optimizer.step,        *)
(* lr_scheduler.step, zero_grad, progress_bar.update; scheduler and        *)
(* progress counter advance as often as the optimizer.                     *)
C14_StepOrder ==
    TrainRan =>
        /\ \A i \in 1..Len(hist) :
              SelectSeq(hist[i].ops, IsOrderedOp) =
                 <<"backward",
                   IF cfg.clip # 0 THEN "clip_grad_norm_" ELSE "get_grad_norm">>
                 \o (IF hist[i].update
                     THEN <<"optimizer.step", "lr_scheduler.step",
                            "optimizer.zero_grad", "progress_bar.update">>
                          \o (IF args.pruner
                              THEN <<"pruner.prune",
                                     "pruner._update_mask_conditions">>
                                   \o (IF hist[i].umc
                                       THEN <<"pruner.sparsity">> ELSE <<>>)
                              ELSE <<>>)
                     ELSE <<>>)
                 \o <<"gather(predictions)", "gather(labels)",
                      "metric.add_batch">>
        /\ NumOps("lr_scheduler.step") = NumOps("optimizer.step")
        /\ NumOps("progress_bar.update") = NumOps("optimizer.step")
        /\ NumOps("optimizer.zero_grad") = NumOps("optimizer.step")
        /\ schedSteps = NumOps("optimizer.step")
        /\ progress = NumOps("optimizer.step")

C14_Witness ==
    /\ TrainRan /\ pc = "done" /\ args.pruner /\ Len(hist) = 3
    /\ ~hist[1].update /\ hist[2].update /\ hist[3].update
    /\ schedSteps = 2 /\ progress = 2
    /\ NumOps("optimizer.step") = 2

(* C15: the clip acts only on update steps: an accumulate-only step leaves *)
(* the accumulated gradients as its backward made them.                    *)
C15_Original ==
    TrainRan =>
        \A i \in 1..Len(hist) :
            ~hist[i].update => hist[i].gradMeas = hist[i].gradBack

(* kd_reg_loss summed over the layers begin, begin + 1, ... that both      *)
(* sequences have, each student layer with the teacher layer of the same   *)
(* index                                                                   *)
PairedSum(student, teacher, begin) ==
    LET last == Min(Len(student), Len(teacher))
    IN  Sum([j \in 1..Max(0, last - begin) |->
               (student[begin + j] - teacher[begin + j])
               * (student[begin + j] - teacher[begin + j])])

(* C17: in KD mode the raw loss of a step is the logit loss plus the sum   *)
(* of kd_reg_loss over the positionally paired hidden states from          *)
(* BEGIN_LAYER on plus the same sum over the attentions; this composite,   *)
(* not the task loss, is what is scaled for backward and what a progress   *)
(* line shows as 'loss raw', with the three sub-losses as diagnostics.     *)
C17_KdComposite ==
    TrainRan =>
        \A i \in 1..Len(hist) :
            hist[i].kd =>
              LET hs == PairedSum(StudentHidden(args.Ls),
                                  TeacherHidden(args.Lt), cfg.begin)
                  at == PairedSum(StudentAttn(args.Ls),
                                  TeacherAttn(args.Lt), cfg.begin)
                  raw == hist[i].batch.logit + hs + at
              IN  /\ hist[i].diag = <<hist[i].batch.logit, hs, at>>
                  /\ hist[i].loss_raw = raw
                  /\ hist[i].loss = RDivInt(RInt(raw), cfg.w)
                  /\ batch_loss[i] = hist[i].loss
                  /\ hist[i].printed =>
                       /\ hist[i].line[1].loss_raw = raw
                       /\ hist[i].line[1].loss = hist[i].loss
                       /\ hist[i].line[1].kd = hist[i].diag

C17_Witness ==
    /\ TrainRan /\ KdActive(args) /\ args.Ls = 2 /\ args.Lt = 2
    /\ cfg.begin = 1 /\ Len(hist) >= 1
    /\ hist[1].printed
    /\ hist[1].line[1].loss_raw = hist[1].batch.logit + 13 + 4
    /\ hist[1].line[1].loss_raw # hist[1].batch.loss

(* C18: a progress line is emitted exactly on the steps with               *)
(* step mod PRINT_FREQ = 0, and emitting it changes nothing else: no call  *)
(* ends with an error raised by the telemetry block.                       *)
C18_Original ==
    /\ \A i \in 1..Len(hist) :
          hist[i].printed <=> (hist[i].k % cfg.freq = 0)
    /\ pc = "error" =>
          err \in {"AssertionError", "RuntimeError", "ZeroDivisionError"}

(* C19: an epoch over an empty dataloader returns nothing in either phase: *)
(* it ends with the division by zero of the mean loss, compute() not       *)
(* called, and no step, update, scheduler advance, pruner call or          *)
(* add_batch made.                                                         *)
C19_EmptyEpoch ==
    n = 0 =>
        /\ pc # "done"
        /\ ~result.returned
        /\ hist = <<>> /\ exitOps = <<>> /\ agg = <<>>
        /\ schedSteps = 0 /\ progress = 0 /\ grad = RInt(0)
        /\ pc = "error" => err = "ZeroDivisionError"

C19_Witness ==
    /\ n = 0 /\ pc = "error" /\ err = "ZeroDivisionError"
    /\ args.phase = "train" /\ args.pruner
    /\ AllOps = <<>>

(* C20: step_lr and batch_loss grow by one entry per step and have length  *)
(* n after a completed train epoch; the learning rate logged for step k is *)
(* the schedule's value after floor(k / w) advances, read before the       *)
(* step's own advance, and it differs from the previous entry only after   *)
(* an update step.                                                         *)
C20_Logs ==
    TrainRan =>
        /\ pc = "idle" => (step_lr = <<>> /\ batch_loss = <<>>)
        /\ pc \in {"loop", "done"} =>
              (Len(step_lr) = step /\ Len(batch_loss) = step)
        /\ Len(step_lr) = Len(hist) /\ Len(batch_loss) = Len(hist)
        /\ \A i \in 1..Len(step_lr) :
              /\ step_lr[i] = (i - 1) \div cfg.w
              /\ step_lr[i] = hist[i].lr
              /\ i > 1 => (step_lr[i] # step_lr[i - 1] => hist[i - 1].update)
        /\ pc = "done" =>
              /\ Len(step_lr) = n /\ Len(batch_loss) = n
              /\ result.step_lr = step_lr

C20_Witness ==
    /\ TrainRan /\ pc = "done" /\ n = 4 /\ cfg.w = 2
    /\ result.step_lr = <<0, 0, 1, 1>>
    /\ Len(batch_loss) = 4

(* ===================== the N processes of one run ====================== *)
(* Every process runs the same loop over its own shard; the prepared       *)
(* dataloader gives each of them the same len(dataloader). A gather is a   *)
(* collective: a process that calls it stays in the call until every       *)
(* process of the run is in a gather call, and the calls that meet are     *)
(* served together whatever tensor each of them passed.                    *)
Ranks == 1..dl.N

IsGatherCall(c) == c \in {"gather(predictions)", "gather(labels)"}

(* a variant in which only the main process gathers *)
WorkerStepCallsMainOnly(rank, phase, update, printed, pruner) ==
    IF rank = 1 THEN GatherOps ELSE <<"metric.add_batch">>

(* lines 104-109 (train) and 164-169 (val): the calls that close a step;   *)
(* they stand outside every `if` of the loop body and read no rank         *)
WorkerStepCalls(rank, phase, update, printed, pruner) == GatherOps

(* the calls process r makes at the end of its current step *)
CallsOf(r) ==
    WorkerStepCalls(r, args.phase,
                    args.phase = "train"
                        /\ ShouldUpdate(workers[r].k, n, cfg.w),
                    workers[r].k % cfg.freq = 0,
                    args.pruner)

CurrentCall(r) == CallsOf(r)[workers[r].idx]

InGather(r) ==
    /\ workers[r].at = "calls"
    /\ IsGatherCall(CurrentCall(r))

(* process r after the call it is in has returned: the next call of the    *)
(* step, or the head of the next iteration, or the end of the loop         *)
Advance(r) ==
    IF workers[r].idx < Len(CallsOf(r))
    THEN [workers[r] EXCEPT !.idx = @ + 1]
    ELSE [k |-> workers[r].k + 1,
          at |-> IF workers[r].k + 1 < n THEN "body" ELSE "exit",
          idx |-> 0,
          gathers |-> workers[r].gathers]

InitGather ==
    /\ args \in TrainArgs \cup ValArgs
    /\ ~args.teacher
    /\ cfg \in Configs
    /\ cfg.begin = 0
    /\ args.phase = "val" => (cfg.w = 1 /\ cfg.clip = 0)
    /\ dl \in [ N : 1..MaxWorkers, B : 1..MaxBatch, D : 0..MaxData ]
    /\ pc = "idle"
    /\ err = ""
    /\ mode = "none"
    /\ step = 0
    /\ batch_loss = <<>>
    /\ step_lr = <<>>
    /\ grad = RInt(0)
    /\ schedSteps = 0
    /\ progress = 0
    /\ agg = <<>>
    /\ hist = <<>>
    /\ exitOps = <<>>
    /\ result = [ returned |-> FALSE ]
    /\ teacherGrad = RInt(0)
    /\ gradSteps = {}
    /\ workers = [ r \in Ranks |->
                     [k |-> 0,
                      at |-> IF n > 0 THEN "body" ELSE "exit",
                      idx |-> 0,
                      gathers |-> <<>>] ]
    /\ matched = {}
    /\ collectives = 0

(* lines 22-101 (train) and 158-162 (val): forward, backward, update,      *)
(* pruning, all local to process r, up to the first call that closes the   *)
(* step                                                                    *)
WorkerBody(r) ==
    /\ workers[r].at = "body"
    /\ workers' = [workers EXCEPT ![r].at = "calls", ![r].idx = 1]
    /\ UNCHANGED <<matched, collectives, cfg, args, dl, callVars>>

(* accelerator.gather, lines 107-108 and 167-168: every process is in a    *)
(* gather call; the calls are served together and all of them return       *)
Collective ==
    /\ \A r \in Ranks : InGather(r)
    /\ matched' = { <<workers[r].k, CurrentCall(r)>> : r \in Ranks }
    /\ collectives' = collectives + 1
    /\ workers' = [ r \in Ranks |->
                      [Advance(r) EXCEPT
                          !.gathers = Append(@, <<workers[r].k,
                                                  CurrentCall(r)>>)] ]
    /\ UNCHANGED <<cfg, args, dl, callVars>>

(* metric_computor.add_batch, lines 106 and 166, then the rest of the      *)
(* iteration (lines 111-138, 171-185), local to process r                  *)
WorkerAddBatch(r) ==
    /\ workers[r].at = "calls"
    /\ ~IsGatherCall(CurrentCall(r))
    /\ workers' = [workers EXCEPT ![r] = Advance(r)]
    /\ UNCHANGED <<matched, collectives, cfg, args, dl, callVars>>

NextGather ==
    \/ \E r \in Ranks : WorkerBody(r)
    \/ Collective
    \/ \E r \in Ranks : WorkerAddBatch(r)

(* every process keeps running, and a gather that every process has        *)
(* joined completes                                                        *)
SpecGather == InitGather /\ [][NextGather]_vars /\ WF_vars(NextGather)

AllExited == \A r \in Ranks : workers[r].at = "exit"

(* the gathers a process has made by the time it has closed j steps *)
GathersOfSteps(j) ==
    [ i \in 1..(2 * j) |->
        <<(i - 1) \div 2,
          IF i % 2 = 1 THEN "gather(predictions)" ELSE "gather(labels)">> ]

(* a process's gathers so far, as a function of its position only *)
GatherLockstep ==
    \A r \in Ranks :
        LET w == workers[r]
            inStep == IF w.at = "calls" THEN w.idx - 1 ELSE 0
        IN  /\ Len(w.gathers) = 2 * w.k + inStep
            /\ Len(w.gathers) = collectives
            /\ \A i \in 1..Len(w.gathers) :
                  /\ w.gathers[i][1] = (i - 1) \div 2
                  /\ w.gathers[i][2] = IF i % 2 = 1
                                       THEN "gather(predictions)"
                                       ELSE "gather(labels)"
            /\ (w.at = "calls" /\ ~IsGatherCall(CallsOf(r)[w.idx])) =>
                  /\ w.idx = 3
                  /\ SubSeq(w.gathers, Len(w.gathers) - 1, Len(w.gathers))
                        = << <<w.k, "gather(predictions)">>,
                             <<w.k, "gather(labels)">> >>
            /\ w.at = "exit" => (w.k = n /\ w.gathers = GathersOfSteps(n))

(* the calls that met in the last gather were at one step and passed one   *)
(* kind of tensor                                                          *)
GatherMatched ==
    collectives > 0 =>
        matched = { <<(collectives - 1) \div 2,
                      IF collectives % 2 = 1 THEN "gather(predictions)"
                      ELSE "gather(labels)">> }

(* C16: on every process and at every step of train and of val, whatever   *)
(* the step's update, print or pruner flags and whatever the rank, the     *)
(* step closes with gather(predictions), gather(labels), add_batch; so     *)
(* the j-th gather of every process is that of step (j-1) div 2 with the   *)
(* same tensor kind, the calls that meet in a gather always agree, and,    *)
(* the processes running the same number of steps, each of them            *)
(* eventually leaves its loop: none stays in a gather forever.             *)
C16_GatherLockstep ==
    /\ [](GatherLockstep /\ GatherMatched)
    /\ <>[]AllExited

C16_Witness ==
    /\ dl.N = 2 /\ n = 2 /\ AllExited
    /\ collectives = 4
    /\ args.phase = "train" /\ cfg.w = 2 /\ cfg.freq = 2 /\ args.pruner
    /\ workers[2].gathers = GathersOfSteps(2)

====
